---------------------------- MODULE Spec2Model ----------------------------
(***************************************************************************)
(* Model of the job-board ingestion code:                                  *)
(*   - src/src/hooks/useJobs.ts : isValidDate, validateAndParseJob and the *)
(*     useJobs hook (fetch, decode, validate every row, publish);          *)
(*   - src/unnamed/part_000     : the AdminUpload component                *)
(*     (handleFileUpload and its FileReader callbacks).                    *)
(*                                                                         *)
(* JavaScript text is a sequence of one-character strings, so that         *)
(* toString, parseInt, split and the Date parser are computed character by *)
(* character.  A spreadsheet cell is a tagged record: undefined (the       *)
(* column is absent from the row object), a string or a number.            *)
(***************************************************************************)
EXTENDS Integers, Sequences, FiniteSets

VARIABLES
    now,        \* the wall clock read by `new Date()`: days since ClockBase
    engine,     \* the JavaScript engine the page runs in: the texts outside
                \* the standard date format that its Date parser accepts
    vRow,       \* validator harness: the RawJobData handed to validateAndParseJob
    vOut,       \* validator harness: what the call returned (Pending before it)
    vNow,       \* validator harness: the clock value the call read
    pc,         \* useJobs: position of the effect / fetchJobs
    jobs,       \* useJobs: useState<Job[]>([])
    loading,    \* useJobs: useState(true)
    error,      \* useJobs: useState<string | null>(null)
    runs,       \* useJobs: number of fetchJobs() calls made so far
    net,        \* useJobs: what fetch / arrayBuffer delivered to this run
    reads,      \* useJobs: the clock as each row's validation of this run read it
    uploading,  \* AdminUpload: useState(false), as the setters last left it
    upError,    \* AdminUpload: useState<string | null>(null), likewise
    reader,     \* AdminUpload: the FileReader in flight (or none)
    location,   \* AdminUpload: the router's current path
    attempt     \* AdminUpload: the last change event, what became of it, and
                \* the rows console.log printed for it

vars == <<now, engine, vRow, vOut, vNow, pc, jobs, loading, error, runs, net,
          reads, uploading, upError, reader, location, attempt>>
validatorVars == <<vRow, vOut, vNow>>
hookVars == <<pc, jobs, loading, error, runs, net, reads>>
uploadVars == <<uploading, upError, reader, location, attempt>>

(***************************************************************************)
(* Bounds of the model.                                                    *)
(***************************************************************************)
MaxRows == 3        \* rows in the first sheet of a served / uploaded workbook
MaxSheets == 2      \* sheets in a workbook
MaxClock == 1       \* days the wall clock may advance
MaxDeviations == 2  \* columns in which a harness row differs from BaseRow
MaxRuns == 2        \* fetchJobs() calls the model follows

(***************************************************************************)
(* JavaScript values.                                                      *)
(***************************************************************************)
Undefined == [kind |-> "undefined"]
Null == [kind |-> "null"]
Str(t) == [kind |-> "string", text |-> t]
Num(n) == [kind |-> "number", num |-> n]
\* a thrown TypeError ("Cannot read properties of undefined")
Thrown == [kind |-> "throw"]
\* an error message held in a useState<string | null>
Message(m) == [kind |-> "message", message |-> m]

Digits == <<"0", "1", "2", "3", "4", "5", "6", "7", "8", "9">>
DigitChars == {Digits[i] : i \in 1..10}
IsDigit(c) == c \in DigitChars
DigitValue(c) == (CHOOSE i \in 1..10 : Digits[i] = c) - 1
\* StrWhiteSpaceChar: WhiteSpace and LineTerminator of ECMAScript.  A
\* character that a string of this notation cannot hold stands under the
\* name of its code point.
StrWhiteSpaceChars ==
    {"\t", "U+000B", "\f", " ", "U+00A0", "U+FEFF",
     "U+1680", "U+2000", "U+2001", "U+2002", "U+2003", "U+2004", "U+2005",
     "U+2006", "U+2007", "U+2008", "U+2009", "U+200A", "U+202F", "U+205F",
     "U+3000",
     "\n", "\r", "U+2028", "U+2029"}
IsWhiteSpace(c) == c \in StrWhiteSpaceChars

RECURSIVE NatToText(_)
NatToText(n) ==
    IF n < 10 THEN <<Digits[n + 1]>>
    ELSE NatToText(n \div 10) \o <<Digits[(n % 10) + 1]>>

\* Number.prototype.toString() of an integer
NumberToString(n) == IF n < 0 THEN <<"-">> \o NatToText(0 - n) ELSE NatToText(n)

\* x.toString(): a TypeError for undefined, the text itself for a string
toString(cell) ==
    CASE cell.kind = "string" -> Str(cell.text)
      [] cell.kind = "number" -> Str(NumberToString(cell.num))
      [] OTHER -> Thrown

\* x?.toString(): undefined short-circuits
OptToString(cell) ==
    IF cell.kind \in {"undefined", "null"} THEN Undefined ELSE toString(cell)

\* ToBoolean
Truthy(cell) ==
    CASE cell.kind = "string" -> cell.text # <<>>
      [] cell.kind = "number" -> cell.num # 0
      [] OTHER -> FALSE

\* a || b
OrElse(a, b) == IF Truthy(a) THEN a ELSE b

(***************************************************************************)
(* parseInt(text, 10): leading white space is skipped, an optional sign,   *)
(* then the longest run of digits; NaN when that run is empty.             *)
(***************************************************************************)
RECURSIVE SkipWhiteSpace(_)
SkipWhiteSpace(t) ==
    IF t # <<>> /\ IsWhiteSpace(Head(t)) THEN SkipWhiteSpace(Tail(t)) ELSE t

RECURSIVE DigitPrefix(_)
DigitPrefix(t) ==
    IF t # <<>> /\ IsDigit(Head(t)) THEN <<Head(t)>> \o DigitPrefix(Tail(t)) ELSE <<>>

RECURSIVE TextToNat(_, _)
TextToNat(t, acc) ==
    IF t = <<>> THEN acc ELSE TextToNat(Tail(t), acc * 10 + DigitValue(Head(t)))

NaN == [nan |-> TRUE, value |-> 0]

ParseInt10(t) ==
    LET s == SkipWhiteSpace(t)
        neg == s # <<>> /\ Head(s) = "-"
        body == IF s # <<>> /\ Head(s) \in {"-", "+"} THEN Tail(s) ELSE s
        ds == DigitPrefix(body)
    IN  IF ds = <<>> THEN NaN
        ELSE [nan |-> FALSE,
              value |-> IF neg THEN 0 - TextToNat(ds, 0) ELSE TextToNat(ds, 0)]

\* parseInt(...) || 0 : NaN and 0 are falsy
ParseIntOrZero(t) ==
    LET p == ParseInt10(t) IN IF p.nan \/ p.value = 0 THEN 0 ELSE p.value

(***************************************************************************)
(* text.split('\n').filter(Boolean)                                        *)
(***************************************************************************)
RECURSIVE SplitOn(_, _, _)
\* String.prototype.split with a one-character separator; cur is the
\* segment being read.  split of "" yields [""].
SplitOn(t, sep, cur) ==
    IF t = <<>> THEN <<cur>>
    ELSE IF Head(t) = sep THEN <<cur>> \o SplitOn(Tail(t), sep, <<>>)
    ELSE SplitOn(Tail(t), sep, Append(cur, Head(t)))

Split(t, sep) == SplitOn(t, sep, <<>>)

NonEmptyText(t) == t # <<>>
FilterBoolean(segments) == SelectSeq(segments, NonEmptyText)

(***************************************************************************)
(* Date.  `new Date(text)` reads the ECMAScript date-time string format    *)
(* (YYYY, YYYY-MM, YYYY-MM-DD, and those followed by THH:mm[:ss[.sss]] and  *)
(* an optional Z or +HH:mm / -HH:mm).  What a text that is no valid        *)
(* instance of that format gives is left to the engine ("2024-02-30",      *)
(* "45352", "3/1/2024" are dates in some engines and not in others): such  *)
(* a text is a date exactly when it is in `engine`.  No engine has a text  *)
(* without a digit in it.  `new Date(undefined)` is Invalid Date.          *)
(***************************************************************************)
AllDigits(t) == \A i \in 1..Len(t) : IsDigit(t[i])

IsLeapYear(y) == (y % 4 = 0 /\ y % 100 # 0) \/ y % 400 = 0

DaysInMonth(y, m) ==
    IF m = 2 THEN (IF IsLeapYear(y) THEN 29 ELSE 28)
    ELSE IF m \in {4, 6, 9, 11} THEN 30 ELSE 31

InvalidDate == [nan |-> TRUE]
DateValue(y, m, d) == [nan |-> FALSE, year |-> y, month |-> m, day |-> d]
\* a date of the engine's own parser: only its validity is read
EngineDate == [nan |-> FALSE]

\* two digits at positions i, i + 1 of t
TwoDigits(t, i) == i + 1 <= Len(t) /\ IsDigit(t[i]) /\ IsDigit(t[i + 1])
TwoDigitValue(t, i) == TextToNat(SubSeq(t, i, i + 1), 0)

\* the time zone of the format: nothing, Z, +HH:mm or -HH:mm
IsTimeZone(z) ==
    \/ z = <<>>
    \/ z = <<"Z">>
    \/ /\ Len(z) = 6
       /\ z[1] \in {"+", "-"}
       /\ TwoDigits(z, 2) /\ z[4] = ":" /\ TwoDigits(z, 5)
       /\ TwoDigitValue(z, 2) <= 23 /\ TwoDigitValue(z, 5) <= 59

\* HH:mm[:ss[.sss]] and a time zone
IsTimeOfDay(s) ==
    /\ Len(s) >= 5
    /\ TwoDigits(s, 1) /\ s[3] = ":" /\ TwoDigits(s, 4)
    /\ TwoDigitValue(s, 1) <= 23 /\ TwoDigitValue(s, 4) <= 59
    /\ LET afterMinutes == SubSeq(s, 6, Len(s))
       IN  IF afterMinutes # <<>> /\ afterMinutes[1] = ":"
           THEN /\ TwoDigits(afterMinutes, 2)
                /\ TwoDigitValue(afterMinutes, 2) <= 59
                /\ LET afterSeconds == SubSeq(afterMinutes, 4, Len(afterMinutes))
                   IN  IF afterSeconds # <<>> /\ afterSeconds[1] = "."
                       THEN /\ Len(afterSeconds) >= 4
                            /\ AllDigits(SubSeq(afterSeconds, 2, 4))
                            /\ IsTimeZone(SubSeq(afterSeconds, 5, Len(afterSeconds)))
                       ELSE IsTimeZone(afterSeconds)
           ELSE IsTimeZone(afterMinutes)

\* the date part of the format, as a date of the calendar; InvalidDate when
\* t is not such a date
FormatDate(t) ==
    LET year == TextToNat(SubSeq(t, 1, 4), 0)
        month == TextToNat(SubSeq(t, 6, 7), 0)
        day == TextToNat(SubSeq(t, 9, 10), 0)
    IN  IF Len(t) = 4 /\ AllDigits(t)
        THEN DateValue(year, 1, 1)
        ELSE IF Len(t) = 7 /\ AllDigits(SubSeq(t, 1, 4)) /\ t[5] = "-"
                /\ AllDigits(SubSeq(t, 6, 7)) /\ month \in 1..12
        THEN DateValue(year, month, 1)
        ELSE IF Len(t) = 10 /\ AllDigits(SubSeq(t, 1, 4)) /\ t[5] = "-"
                /\ AllDigits(SubSeq(t, 6, 7)) /\ t[8] = "-"
                /\ AllDigits(SubSeq(t, 9, 10))
                /\ month \in 1..12 /\ day \in 1..DaysInMonth(year, month)
        THEN DateValue(year, month, day)
        ELSE InvalidDate

\* a valid instance of the format: a date, or a date, "T" and a time
FormatParse(t) ==
    LET split == CHOOSE i \in 1..(Len(t) + 1) :
                    (i = Len(t) + 1 \/ t[i] = "T")
                    /\ \A j \in 1..(i - 1) : t[j] # "T"
    IN  IF split > Len(t)
        THEN FormatDate(t)
        ELSE IF IsTimeOfDay(SubSeq(t, split + 1, Len(t)))
        THEN FormatDate(SubSeq(t, 1, split - 1))
        ELSE InvalidDate

\* Date.parse(t)
DateParse(t) ==
    IF ~FormatParse(t).nan THEN FormatParse(t)
    ELSE IF t \in engine THEN EngineDate
    ELSE InvalidDate

\* new Date(value) for the argument of isValidDate: a text or undefined
NewDate(v) == IF v.kind = "string" THEN DateParse(v.text) ELSE InvalidDate

\* mutant: every value is taken for a date
isValidDate_AlwaysTrue(dateString) == TRUE

\* date instanceof Date && !isNaN(date.getTime())
isValidDate(dateString) == ~NewDate(dateString).nan

\* The clock counts whole days from the day the model starts on.
ClockBase == [year |-> 2026, month |-> 10, day |-> 31]

\* The time value of a Date counts from 1970-01-01; in whole days:
\* the day number of a date of the calendar ...
DayFromDate(d) ==
    LET y == IF d.month <= 2 THEN d.year - 1 ELSE d.year
        era == y \div 400
        yearOfEra == y - era * 400
        monthFromMarch == IF d.month > 2 THEN d.month - 3 ELSE d.month + 9
        dayOfYear == (153 * monthFromMarch + 2) \div 5 + d.day - 1
        dayOfEra == yearOfEra * 365 + yearOfEra \div 4 - yearOfEra \div 100 + dayOfYear
    IN  era * 146097 + dayOfEra - 719468

\* ... and the date of a day number (YearFromTime, MonthFromTime,
\* DateFromTime)
DateFromDay(z) ==
    LET shifted == z + 719468
        era == shifted \div 146097
        dayOfEra == shifted - era * 146097
        yearOfEra == (dayOfEra - dayOfEra \div 1460 + dayOfEra \div 36524
                        - dayOfEra \div 146096) \div 365
        dayOfYear == dayOfEra - (365 * yearOfEra + yearOfEra \div 4 - yearOfEra \div 100)
        monthFromMarch == (5 * dayOfYear + 2) \div 153
        month == IF monthFromMarch < 10 THEN monthFromMarch + 3 ELSE monthFromMarch - 9
    IN  [year |-> yearOfEra + era * 400 + (IF month <= 2 THEN 1 ELSE 0),
         month |-> month,
         day |-> dayOfYear - (153 * monthFromMarch + 2) \div 5 + 1]

\* new Date(), n days after the model's start
DateOfClock(n) == DateFromDay(DayFromDate(ClockBase) + n)

RECURSIVE PadStart(_, _)
PadStart(t, width) == IF Len(t) >= width THEN t ELSE PadStart(<<"0">> \o t, width)

\* Date.prototype.toISOString(): YYYY-MM-DDTHH:mm:ss.sssZ
toISOString(d) ==
    PadStart(NatToText(d.year), 4) \o <<"-">> \o PadStart(NatToText(d.month), 2)
        \o <<"-">> \o PadStart(NatToText(d.day), 2)
        \o <<"T", "1", "2", ":", "0", "0", ":", "0", "0", ".", "0", "0", "0", "Z">>

\* new Date().toISOString().split('T')[0]
Today(clock) == Split(toISOString(DateOfClock(clock)), "T")[1]

(***************************************************************************)
(* validateAndParseJob                                                     *)
(***************************************************************************)
FULL_TIME == <<"F", "U", "L", "L", "_", "T", "I", "M", "E">>
USD == <<"U", "S", "D">>
NoApplicationUrl == <<"#">>
DefaultCompanyLogo ==
    <<"h", "t", "t", "p", "s", ":", "/", "/", "i", "m", "a", "g", "e", "s", ".",
      "u", "n", "s", "p", "l", "a", "s", "h", ".", "c", "o", "m", "/", "p", "h",
      "o", "t", "o", "-", "1", "5", "6", "0", "1", "7", "9", "7", "0", "7", "-",
      "f", "1", "4", "e", "9", "0", "e", "f", "3", "6", "2", "3", "?", "w", "=",
      "1", "0", "0", "&", "h", "=", "1", "0", "0", "&", "f", "i", "t", "=", "c",
      "r", "o", "p">>

FieldNames ==
    {"ID", "Title", "Company", "Location", "Type", "Description", "Requirements",
     "SalaryMin", "SalaryMax", "SalaryCurrency", "PostedDate", "ApplicationUrl",
     "CompanyLogo"}

\* what the call returned: null (with the console.error line it wrote) or a Job
Rejected(logged) == [kind |-> "null", logged |-> logged]
Returned(job) == [kind |-> "job", job |-> job]

\* mutant: the Company test is forgotten
MissingRequired_NoCompany(row) == ~Truthy(row.ID) \/ ~Truthy(row.Title)

\* !row.ID || !row.Title || !row.Company
MissingRequired(row) == ~Truthy(row.ID) \/ ~Truthy(row.Title) \/ ~Truthy(row.Company)

\* the postedDate constant: the cell's own text when it is a date, else today
PostedDateOf(row, clock) ==
    IF isValidDate(OptToString(row.PostedDate))
    THEN toString(row.PostedDate)
    ELSE Str(Today(clock))

\* Every expression of the object literal, evaluated: a string or Thrown.
JobParts(row, clock) ==
    [postedDate |-> PostedDateOf(row, clock),
     id |-> toString(row.ID),
     title |-> toString(row.Title),
     company |-> toString(row.Company),
     location |-> toString(row.Location),
     type |-> OrElse(OptToString(row.Type), Str(FULL_TIME)),
     description |-> toString(row.Description),
     requirements |-> toString(row.Requirements),
     salaryMin |-> toString(row.SalaryMin),
     salaryMax |-> toString(row.SalaryMax),
     currency |-> OrElse(OptToString(row.SalaryCurrency), Str(USD)),
     applicationUrl |-> OrElse(OptToString(row.ApplicationUrl), Str(NoApplicationUrl)),
     companyLogo |-> OrElse(OptToString(row.CompanyLogo), Str(DefaultCompanyLogo))]

AnyThrown(parts) == \E f \in DOMAIN parts : parts[f].kind = "throw"

BuildJob(parts) ==
    [id |-> parts.id.text,
     title |-> parts.title.text,
     company |-> parts.company.text,
     location |-> parts.location.text,
     type |-> parts.type.text,
     description |-> parts.description.text,
     requirements |-> FilterBoolean(Split(parts.requirements.text, "\n")),
     salary |-> [min |-> ParseIntOrZero(parts.salaryMin.text),
                 max |-> ParseIntOrZero(parts.salaryMax.text),
                 currency |-> parts.currency.text],
     postedDate |-> parts.postedDate.text,
     applicationUrl |-> parts.applicationUrl.text,
     companyLogo |-> parts.companyLogo.text]

validateAndParseJob(row, clock) ==
    IF MissingRequired(row)
    THEN Rejected("Missing required fields in job data:")
    ELSE LET parts == JobParts(row, clock)
         IN  IF AnyThrown(parts)
             THEN Rejected("Error parsing job data:")
             ELSE Returned(BuildJob(parts))

(***************************************************************************)
(* The rows the model feeds the validator.  A harness row differs from     *)
(* BaseRow (every column filled in) in at most MaxDeviations columns, each *)
(* taking any value of that column's domain: absent, empty, text, number.  *)
(***************************************************************************)
ColumnValues ==
    [ID |-> {Undefined, Str(<<>>), Num(0), Num(7), Str(<<"J", "1">>)},
     Title |-> {Undefined, Str(<<>>), Str(<<"D", "e", "v">>)},
     Company |-> {Undefined, Str(<<>>), Str(<<"A", "c", "m", "e">>)},
     Location |-> {Undefined, Str(<<>>), Str(<<"N", "Y", "C">>)},
     Type |-> {Undefined, Str(<<>>), Str(<<"C", "O", "N", "T", "R", "A", "C", "T">>),
               Str(<<"I", "N", "V", "A", "L", "I", "D", "_", "T", "Y", "P", "E">>)},
     Description |-> {Undefined, Str(<<"D", "e", "s", "c">>)},
     Requirements |-> {Undefined, Str(<<>>), Str(<<"A", "\n", "B", "\n", "\n", "C">>)},
     SalaryMin |-> {Undefined, Str(<<>>), Str(<<"a", "b", "c">>),
                    Str(<<"5", "0", "0", "0", "0">>), Num(50000),
                    Str(<<"1", "2", "a", "b", "c">>), Str(<<"-", "7">>)},
     SalaryMax |-> {Undefined, Str(<<>>), Num(90000), Str(<<" ", "4", "2">>),
                    Str(<<"\r", "4", "2">>)},
     SalaryCurrency |-> {Undefined, Str(<<"E", "U", "R">>)},
     PostedDate |-> {Undefined, Str(<<>>),
                     Str(<<"n", "o", "t", "-", "a", "-", "d", "a", "t", "e">>),
                     Str(<<"2", "0", "2", "4", "-", "0", "3", "-", "0", "1">>),
                     Str(<<"2", "0", "2", "4", "-", "1", "3", "-", "0", "1">>),
                     Str(<<"2", "0", "2", "4", "-", "0", "2", "-", "3", "0">>),
                     Num(2024), Num(45352)},
     ApplicationUrl |-> {Undefined, Str(<<"/", "a", "p", "p", "l", "y">>)},
     CompanyLogo |-> {Undefined, Str(<<"/", "l", "o", "g", "o", ".", "p", "n", "g">>)}]

BaseRow ==
    [ID |-> Str(<<"J", "1">>),
     Title |-> Str(<<"D", "e", "v">>),
     Company |-> Str(<<"A", "c", "m", "e">>),
     Location |-> Str(<<"N", "Y", "C">>),
     Type |-> Str(<<"C", "O", "N", "T", "R", "A", "C", "T">>),
     Description |-> Str(<<"D", "e", "s", "c">>),
     Requirements |-> Str(<<"A", "\n", "B", "\n", "\n", "C">>),
     SalaryMin |-> Str(<<"5", "0", "0", "0", "0">>),
     SalaryMax |-> Num(90000),
     SalaryCurrency |-> Str(<<"E", "U", "R">>),
     PostedDate |-> Str(<<"2", "0", "2", "4", "-", "0", "3", "-", "0", "1">>),
     ApplicationUrl |-> Str(<<"/", "a", "p", "p", "l", "y">>),
     CompanyLogo |-> Str(<<"/", "l", "o", "g", "o", ".", "p", "n", "g">>)]

AllCells == UNION {ColumnValues[f] : f \in FieldNames}

RowsDeviatingIn(columns) ==
    {[f \in FieldNames |-> IF f \in columns THEN c[f] ELSE BaseRow[f]] :
        c \in {d \in [columns -> AllCells] : \A f \in columns : d[f] \in ColumnValues[f]}}

RowSet ==
    UNION {RowsDeviatingIn(columns) :
             columns \in {S \in SUBSET FieldNames : Cardinality(S) <= MaxDeviations}}

Pending == [kind |-> "pending"]

(***************************************************************************)
(* The engines the model runs the code in.  Of the texts it feeds to       *)
(* `new Date`, two are outside the standard format and read differently by *)
(* different engines: a day past the end of its month, and the serial      *)
(* number a spreadsheet keeps for a date cell.  An engine accepts any of   *)
(* them or none; every engine rejects "", "not-a-date" and "2024-13-01".   *)
(***************************************************************************)
EngineTexts ==
    {<<"2", "0", "2", "4", "-", "0", "2", "-", "3", "0">>,
     <<"4", "5", "3", "5", "2">>}
EngineSet == SUBSET EngineTexts
\* an engine that accepts both, as V8 does
LenientEngine == EngineTexts

(***************************************************************************)
(* The clock, shared by every specification.                               *)
(***************************************************************************)
Tick ==
    /\ now < MaxClock
    /\ now' = now + 1
    /\ UNCHANGED <<engine, validatorVars, hookVars, uploadVars>>

(***************************************************************************)
(* Initial values of the two components.                                   *)
(***************************************************************************)
NoFile == [kind |-> "none"]
NoRun == [fetch |-> "none", body |-> NoFile, at |-> 0]
NoAttempt == [file |-> NoFile, outcome |-> "none", logged |-> <<>>]

HookInit ==
    /\ pc = "mounted"
    /\ jobs = <<>>
    /\ loading = TRUE
    /\ error = Null
    /\ runs = 0
    /\ net = NoRun
    /\ reads = <<>>

UploadInit ==
    /\ uploading = FALSE
    /\ upError = Null
    /\ reader = "none"
    /\ location = "/admin"
    /\ attempt = NoAttempt

(***************************************************************************)
(* Validator harness: one call of validateAndParseJob on a row of RowSet,  *)
(* at whatever time the clock then shows.                                  *)
(***************************************************************************)
ValidatorInit ==
    /\ now = 0
    /\ engine \in EngineSet
    /\ vRow \in RowSet
    /\ vOut = Pending
    /\ vNow = 0
    /\ HookInit
    /\ UploadInit

Validate ==
    /\ vOut = Pending
    /\ vOut' = validateAndParseJob(vRow, now)
    /\ vNow' = now
    /\ UNCHANGED <<now, engine, vRow, hookVars, uploadVars>>

ValidatorNext == Validate \/ Tick

ValidatorSpec == ValidatorInit /\ [][ValidatorNext]_vars

(***************************************************************************)
(* Claims about validateAndParseJob (checked under ValidatorSpec).         *)
(***************************************************************************)
Validated == vOut # Pending

\* the cell is there and its text form is not empty
PresentNonEmpty(cell) ==
    /\ cell.kind \in {"string", "number"}
    /\ toString(cell).text # <<>>

\* the cell is absent, or is the empty string
AbsentOrEmpty(cell) ==
    \/ cell.kind = "undefined"
    \/ cell.kind = "string" /\ cell.text = <<>>

\* C1: every row whose id, title and company are present and non-empty as
\* text (numbers included, whatever optional columns are there) yields a Job,
\* never null, whose id, title and company are the text forms of the cells.
C1_ValidRowYieldsJob ==
    (/\ Validated
     /\ PresentNonEmpty(vRow.ID)
     /\ PresentNonEmpty(vRow.Title)
     /\ PresentNonEmpty(vRow.Company))
    => /\ vOut.kind = "job"
       /\ vOut.job.id = toString(vRow.ID).text
       /\ vOut.job.title = toString(vRow.Title).text
       /\ vOut.job.company = toString(vRow.Company).text

\* C2: a row in which id, title or company is absent or empty yields null:
\* no Job is built and nothing is thrown to the caller.
C2_MissingRequiredRejected ==
    (/\ Validated
     /\ \/ AbsentOrEmpty(vRow.ID)
        \/ AbsentOrEmpty(vRow.Title)
        \/ AbsentOrEmpty(vRow.Company))
    => vOut.kind = "null"

\* C2 witness: a row whose only flaw is an empty company has been rejected.
C2_Witness ==
    /\ vOut.kind = "null"
    /\ vRow = [BaseRow EXCEPT !.Company = Str(<<>>)]

\* What the salary rule of the claim asks of one salary cell, on the cells
\* where it leaves no doubt: a number, or a text that is an integer literal,
\* gives that integer; an absent or empty cell, or a text without any digit,
\* gives 0.  Texts such as "12abc" are left open.
IsIntegerLiteral(t) ==
    /\ t # <<>>
    /\ IF Head(t) = "-" THEN Len(t) > 1 /\ AllDigits(Tail(t)) ELSE AllDigits(t)

IntegerLiteralValue(t) ==
    IF Head(t) = "-" THEN 0 - TextToNat(Tail(t), 0) ELSE TextToNat(t, 0)

SalaryAsClaimed(cell, value) ==
    CASE cell.kind = "undefined" -> value = 0
      [] cell.kind = "number" -> value = cell.num
      [] cell.kind = "string" /\ IsIntegerLiteral(cell.text) ->
            value = IntegerLiteralValue(cell.text)
      [] cell.kind = "string" /\ ~(\E i \in 1..Len(cell.text) : IsDigit(cell.text[i])) ->
            value = 0
      [] OTHER -> TRUE

\* C6: for a row with id, title and company present, salary.min and
\* salary.max are the integers parsed from the salary cells, 0 for a
\* non-numeric, empty or missing cell, and the row is not rejected for it.
\* (Stated for rows whose other text columns are all there, so that only the
\* salary cells decide.)
C6_SalaryCoercion ==
    (/\ Validated
     /\ Truthy(vRow.ID) /\ Truthy(vRow.Title) /\ Truthy(vRow.Company)
     /\ vRow.Location # Undefined
     /\ vRow.Description # Undefined
     /\ vRow.Requirements # Undefined)
    => /\ vOut.kind = "job"
       /\ SalaryAsClaimed(vRow.SalaryMin, vOut.job.salary.min)
       /\ SalaryAsClaimed(vRow.SalaryMax, vOut.job.salary.max)

\* C7: an accepted row's postedDate is the cell's own text when that text
\* parses to a valid date, else the date of the validation in YYYY-MM-DD
\* form; and a row is never rejected for its date: a rejected row is still
\* rejected with a valid date in its place.
C7_PostedDate ==
    /\ vOut.kind = "job" =>
         IF vRow.PostedDate.kind \in {"string", "number"}
            /\ ~DateParse(toString(vRow.PostedDate).text).nan
         THEN vOut.job.postedDate = toString(vRow.PostedDate).text
         ELSE vOut.job.postedDate =
                SubSeq(toISOString(DateOfClock(vNow)), 1, 10)
    /\ vOut.kind = "null" =>
         validateAndParseJob([vRow EXCEPT !.PostedDate = BaseRow.PostedDate], vNow).kind
            = "null"

\* C7 witness: a row with an unparseable date was accepted a day after the
\* model's start and carries that day's date.
C7_Witness ==
    /\ vOut.kind = "job"
    /\ vRow.PostedDate = Str(<<"n", "o", "t", "-", "a", "-", "d", "a", "t", "e">>)
    /\ vNow = 1
    /\ vOut.job.postedDate = <<"2", "0", "2", "6", "-", "1", "1", "-", "0", "1">>

(***************************************************************************)
(* Spreadsheet files.  The xlsx library is outside the repository: a file  *)
(* is either one that `read` throws on, or a workbook, given as the list   *)
(* of its sheets, each sheet as the rows sheet_to_json makes of it.        *)
(***************************************************************************)
Garbage == [kind |-> "garbage"]
Workbook(sheets) == [kind |-> "workbook", sheets |-> sheets]

\* rows of a served file: a full row, a row without Company (rejected by
\* the required-field test), a row without Location (toString throws) and
\* a row without PostedDate (accepted, dated today)
SheetRows ==
    {BaseRow,
     [BaseRow EXCEPT !.Company = Undefined],
     [BaseRow EXCEPT !.Location = Undefined],
     [BaseRow EXCEPT !.ID = Num(7), !.PostedDate = Undefined]}

SeqsUpTo(S, n) == UNION {[1..k -> S] : k \in 0..n}

SheetSet == SeqsUpTo(SheetRows, MaxRows)

\* the first sheet is any sheet; the sheets after it hold one full row
WorkbookSet ==
    {<<>>} \cup {<<first>> \o [i \in 1..k |-> <<BaseRow>>] :
                    first \in SheetSet, k \in 0..(MaxSheets - 1)}

FileSet == {Garbage} \cup {Workbook(w) : w \in WorkbookSet}

\* read(data): the workbook, or a throw on a file that is no spreadsheet
read(file) == IF file.kind = "workbook" THEN file ELSE Thrown

\* The message of the TypeError a failed fetch or body read rejects with, and
\* of the Error xlsx throws: texts of the browser and the library.
NetworkErrorMessage == "Failed to fetch"
DecodeErrorMessage == "File is not a spreadsheet"

\* utils.sheet_to_json(workbook.Sheets[workbook.SheetNames[0]]): the rows of
\* the first sheet; of an undefined sheet (no sheet at all), no rows
FirstSheetToJson(sheets) == IF Len(sheets) = 0 THEN <<>> ELSE sheets[1]

(***************************************************************************)
(* useJobs                                                                 *)
(***************************************************************************)
IsJob(result) == result.kind = "job"

\* The clock readings of one pass over n rows that begins at `from`: each
\* call of validateAndParseJob reads the clock for itself, and the clock
\* does not run backwards between two calls.
ClockReads(n, from) ==
    {r \in [1..n -> from..MaxClock] : \A i \in 1..(n - 1) : r[i] <= r[i + 1]}

\* the clock when the pass is over
ClockAfter(r, from) == IF r = <<>> THEN from ELSE r[Len(r)]

\* mutant: the first row that is not a Job ends the pass
parsedJobsOf_StopAtFirstNull(jsonData, r) ==
    LET results == [i \in 1..Len(jsonData) |-> validateAndParseJob(jsonData[i], r[i])]
        bad == {i \in 1..Len(jsonData) : results[i].kind # "job"}
        upTo == IF bad = {} THEN Len(jsonData)
                ELSE (CHOOSE i \in bad : \A j \in bad : i <= j) - 1
    IN  [i \in 1..upTo |-> results[i].job]

\* jsonData.map(validateAndParseJob).filter(job => job !== null); the call
\* for row i is made when the clock shows r[i]
parsedJobsOf(jsonData, r) ==
    LET results == [i \in 1..Len(jsonData) |-> validateAndParseJob(jsonData[i], r[i])]
        kept == SelectSeq(results, IsJob)
    IN  [i \in 1..Len(kept) |-> kept[i].job]

\* mutant: an empty result is published like any other
NoValidJobs_Never(parsedJobs) == FALSE

\* parsedJobs.length === 0
NoValidJobs(parsedJobs) == Len(parsedJobs) = 0

\* mutant: the effect has no dependency list and runs after every render
EffectDue_EveryRender == pc \in {"mounted", "done"}

\* useEffect(..., []): the effect runs once, after the first render
EffectDue == pc = "mounted"

\* mutant: the catch block forgets setLoading(false)
Catch_KeepsLoading(message) ==
    /\ error' = Message(message)
    /\ pc' = "done"
    /\ UNCHANGED <<jobs, loading>>

\* catch (err): setError(err.message); setLoading(false)
Catch(message) ==
    /\ error' = Message(message)
    /\ loading' = FALSE
    /\ pc' = "done"
    /\ UNCHANGED jobs

\* the effect: fetchJobs() is called and suspends at `await fetch(...)`
Mount ==
    /\ EffectDue
    /\ runs < MaxRuns
    /\ runs' = runs + 1
    /\ pc' = "fetch"
    /\ net' = NoRun
    /\ reads' = <<>>
    /\ UNCHANGED <<now, engine, jobs, loading, error, validatorVars, uploadVars>>

\* fetch rejects (network failure): the TypeError's message is reported
FetchRejects ==
    /\ pc = "fetch"
    /\ net' = [net EXCEPT !.fetch = "rejected", !.at = now]
    /\ Catch(NetworkErrorMessage)
    /\ UNCHANGED <<now, engine, runs, reads, validatorVars, uploadVars>>

\* the response arrives with !response.ok
FetchNotOk ==
    /\ pc = "fetch"
    /\ net' = [net EXCEPT !.fetch = "not ok", !.at = now]
    /\ Catch("Failed to fetch jobs file")
    /\ UNCHANGED <<now, engine, runs, reads, validatorVars, uploadVars>>

\* the response is ok: fetchJobs suspends at `await response.arrayBuffer()`
FetchOk ==
    /\ pc = "fetch"
    /\ net' = [net EXCEPT !.fetch = "ok"]
    /\ pc' = "arrayBuffer"
    /\ UNCHANGED <<now, engine, jobs, loading, error, runs, reads, validatorVars, uploadVars>>

\* reading the body fails
BodyRejects ==
    /\ pc = "arrayBuffer"
    /\ net' = [net EXCEPT !.body = [kind |-> "rejected"], !.at = now]
    /\ Catch(NetworkErrorMessage)
    /\ UNCHANGED <<now, engine, runs, reads, validatorVars, uploadVars>>

\* the body arrives: decode, validate every row, publish (lines 81-104 run
\* without suspending; the state updates of one run are one render).  The
\* pass over the rows takes time: midnight may fall between two rows.
BodyArrives ==
    /\ pc = "arrayBuffer"
    /\ \E file \in FileSet :
         /\ net' = [net EXCEPT !.body = file, !.at = now]
         /\ LET workbook == read(file)
            IN  IF workbook = Thrown
                THEN /\ Catch(DecodeErrorMessage)
                     /\ UNCHANGED <<now, reads>>
                ELSE IF Len(workbook.sheets) = 0
                THEN /\ Catch("Excel file is empty")
                     /\ UNCHANGED <<now, reads>>
                ELSE LET jsonData == FirstSheetToJson(workbook.sheets)
                     IN  \E r \in ClockReads(Len(jsonData), now) :
                           /\ reads' = r
                           /\ now' = ClockAfter(r, now)
                           /\ LET parsedJobs == parsedJobsOf(jsonData, r)
                              IN  IF NoValidJobs(parsedJobs)
                                  THEN Catch("No valid jobs found in the file")
                                  ELSE /\ jobs' = parsedJobs
                                       /\ loading' = FALSE
                                       /\ pc' = "done"
                                       /\ UNCHANGED error
    /\ UNCHANGED <<engine, runs, validatorVars, uploadVars>>

\* The rows of SheetRows carry a date of the standard format or none, so
\* the engine's own parser is not consulted in a run of the hook.
HookSpecInit ==
    /\ now = 0
    /\ engine = LenientEngine
    /\ vRow = BaseRow
    /\ vOut = Pending
    /\ vNow = 0
    /\ HookInit
    /\ UploadInit

HookNext ==
    \/ Mount
    \/ FetchRejects
    \/ FetchNotOk
    \/ FetchOk
    \/ BodyRejects
    \/ BodyArrives
    \/ Tick

HookSpec == HookSpecInit /\ [][HookNext]_vars

\* Every request settles: the browser answers or fails a fetch.
FairHookSpec ==
    /\ HookSpec
    /\ WF_vars(Mount)
    /\ WF_vars(FetchRejects \/ FetchNotOk \/ FetchOk)
    /\ WF_vars(BodyRejects \/ BodyArrives)

(***************************************************************************)
(* Claims about useJobs (checked under HookSpec, C8 under FairHookSpec).   *)
(***************************************************************************)
RowWithoutCompany == [BaseRow EXCEPT !.Company = Undefined]
RowWithoutLocation == [BaseRow EXCEPT !.Location = Undefined]
RowWithoutDate == [BaseRow EXCEPT !.ID = Num(7), !.PostedDate = Undefined]

\* the rows the run decoded, when it decoded any
DecodedRows == net.body.sheets[1]
Decoded == net.body.kind = "workbook" /\ Len(net.body.sheets) > 0

\* C3: a run in which the fetch or the decode fails, or in which every
\* decoded row is rejected, ends in failure: an error message and no jobs.
\* A workbook whose rows all lack company ends with "No valid jobs found".
C3_FailedRunReportsError ==
    pc = "done" =>
      /\ (\/ net.fetch \in {"rejected", "not ok"}
          \/ net.body.kind \in {"rejected", "garbage"}
          \/ net.body.kind = "workbook" /\ Len(net.body.sheets) = 0
          \/ /\ Decoded
             /\ \A i \in 1..Len(DecodedRows) :
                  validateAndParseJob(DecodedRows[i], reads[i]).kind = "null")
         => (error # Null /\ jobs = <<>> /\ ~loading)
      /\ (/\ Decoded
          /\ \A i \in 1..Len(DecodedRows) : DecodedRows[i].Company = Undefined)
         => (error = Message("No valid jobs found in the file") /\ jobs = <<>>)

\* C3 witness: a workbook of two rows, both without company, was ingested
\* and the run ended with the batch-level error.
C3_Witness ==
    /\ pc = "done"
    /\ net.body = Workbook(<<<<RowWithoutCompany, RowWithoutCompany>>>>)
    /\ error = Message("No valid jobs found in the file")

\* C4: the jobs of a successful run are the Jobs of exactly the rows the
\* validator accepts, in the order of the rows: the k-th accepted row gives
\* the k-th job, whatever rejected or throwing rows stand before or after it.
C4_AcceptedRowsInOrder ==
    (pc = "done" /\ error = Null) =>
      /\ Decoded
      /\ LET accepted == {i \in 1..Len(DecodedRows) :
                            validateAndParseJob(DecodedRows[i], reads[i]).kind = "job"}
         IN  /\ Len(jobs) = Cardinality(accepted)
             /\ \A i \in accepted :
                  jobs[Cardinality({j \in accepted : j <= i})]
                    = validateAndParseJob(DecodedRows[i], reads[i]).job

\* C4 witness: a throwing row stood between two good rows and both good
\* rows came through, in order; midnight fell inside the pass and the two
\* undated rows carry different days.
C4_Witness ==
    /\ pc = "done"
    /\ Decoded
    /\ DecodedRows = <<RowWithoutDate, RowWithoutLocation, RowWithoutDate>>
    /\ reads = <<0, 0, 1>>
    /\ Len(jobs) = 2
    /\ jobs[1].id = <<"7">>
    /\ jobs[1].postedDate = <<"2", "0", "2", "6", "-", "1", "0", "-", "3", "1">>
    /\ jobs[2].id = <<"7">>
    /\ jobs[2].postedDate = <<"2", "0", "2", "6", "-", "1", "1", "-", "0", "1">>

\* C8: the hook starts one ingestion run; if every request settles the run
\* completes (loading becomes false), and from then on jobs, error and
\* loading never change: nothing is retried.
C8_OneRunThenQuiet ==
    /\ [](runs <= 1)
    /\ <>(~loading /\ runs = 1)
    /\ [][~loading => UNCHANGED <<jobs, error, loading>>]_vars

\* C8 witness: the run has settled in failure and time has passed since.
C8_Witness ==
    /\ ~loading
    /\ runs = 1
    /\ error # Null
    /\ now > ClockAfter(reads, net.at)

\* C9: the outcomes exclude each other: while loading, no jobs and no
\* error; once settled, either jobs and no error, or an error and no jobs.
C9_ExclusiveOutcomes ==
    /\ loading => (jobs = <<>> /\ error = Null)
    /\ ~loading => \/ (jobs # <<>> /\ error = Null)
                   \/ (jobs = <<>> /\ error # Null)

\* C9 witness: a run has settled with jobs and without error.
C9_Witness ==
    /\ ~loading
    /\ jobs # <<>>
    /\ error = Null
    /\ pc = "done"

(***************************************************************************)
(* AdminUpload.  The file input is on the page while the route is /admin   *)
(* and is disabled while uploading, so a change event needs both.  The     *)
(* FileReader and its two callbacks outlive the page: they fire and call   *)
(* the setters, alert and navigate whether or not the page was left.       *)
(***************************************************************************)
InputEnabled == location = "/admin" /\ ~uploading

\* a click on <Link to="/">Back to Jobs</Link>, at any time the page is shown
ClickBack ==
    /\ location = "/admin"
    /\ location' = "/"
    /\ UNCHANGED <<uploading, upError, reader, attempt>>
    /\ UNCHANGED <<now, engine, validatorVars, hookVars>>

\* onChange with an empty file list: `if (!file) return`
SelectNothing ==
    /\ InputEnabled
    /\ attempt' = [file |-> NoFile, outcome |-> "no file", logged |-> <<>>]
    /\ UNCHANGED <<uploading, upError, reader, location>>
    /\ UNCHANGED <<now, engine, validatorVars, hookVars>>

\* onChange with a file: setUploading(true); setError(null); the handlers
\* are installed and reader.readAsArrayBuffer(file) starts the read
\* (a fresh FileReader given a File does not throw, so the outer catch of
\* handleFileUpload is not entered)
SelectFile ==
    /\ InputEnabled
    /\ \E file \in FileSet :
         attempt' = [file |-> file, outcome |-> "reading", logged |-> <<>>]
    /\ uploading' = TRUE
    /\ upError' = Null
    /\ reader' = "reading"
    /\ UNCHANGED location
    /\ UNCHANGED <<now, engine, validatorVars, hookVars>>

\* mutant: onerror forgets setUploading(false)
ReaderError_KeepsUploading ==
    /\ reader = "reading"
    /\ upError' = Message("Error reading file")
    /\ reader' = "none"
    /\ attempt' = [attempt EXCEPT !.outcome = "read error"]
    /\ UNCHANGED <<uploading, location>>
    /\ UNCHANGED <<now, engine, validatorVars, hookVars>>

\* reader.onerror
ReaderError ==
    /\ reader = "reading"
    /\ upError' = Message("Error reading file")
    /\ uploading' = FALSE
    /\ reader' = "none"
    /\ attempt' = [attempt EXCEPT !.outcome = "read error"]
    /\ UNCHANGED location
    /\ UNCHANGED <<now, engine, validatorVars, hookVars>>

\* reader.onload: read, first sheet to rows, log, alert, navigate('/');
\* a throw sets the error; finally setUploading(false)
ReaderLoad ==
    /\ reader = "reading"
    /\ LET workbook == read(attempt.file)
       IN  IF workbook = Thrown
           THEN /\ upError' = Message("Error parsing Excel file. Please check the format.")
                /\ attempt' = [attempt EXCEPT !.outcome = "parse error"]
                /\ UNCHANGED location
           ELSE /\ location' = "/"
                /\ attempt' = [attempt EXCEPT
                                 !.outcome = "navigated",
                                 !.logged = FirstSheetToJson(workbook.sheets)]
                /\ UNCHANGED upError
    /\ uploading' = FALSE
    /\ reader' = "none"
    /\ UNCHANGED <<now, engine, validatorVars, hookVars>>

\* AdminUpload parses no date.
UploadSpecInit ==
    /\ now = 0
    /\ engine = LenientEngine
    /\ vRow = BaseRow
    /\ vOut = Pending
    /\ vNow = 0
    /\ HookInit
    /\ UploadInit

UploadNext ==
    \/ SelectNothing
    \/ SelectFile
    \/ ClickBack
    \/ ReaderError
    \/ ReaderLoad

UploadSpec == UploadSpecInit /\ [][UploadNext]_vars

(***************************************************************************)
(* Claims about the decode paths and AdminUpload (checked under            *)
(* UploadSpec).                                                            *)
(***************************************************************************)
EmptyWorkbook == Workbook(<<>>)

\* C5: a workbook without sheets is an error on every path that decodes a
\* spreadsheet, never a success: the fetch path ends with an error, and the
\* upload path ends with an error and without navigating.
C5_EmptyWorkbookIsAnError ==
    /\ (pc = "done" /\ net.body = EmptyWorkbook) => (error # Null /\ jobs = <<>>)
    /\ (attempt.file = EmptyWorkbook /\ attempt.outcome \in {"navigated", "parse error"})
         => (upError # Null /\ attempt.outcome = "parse error")

\* the reader of the current attempt completes in this step
ReaderCompletes == reader = "reading" /\ reader' = "none"

\* C10: a change event without a file leaves uploading and error as they
\* were; one with a file sets uploading and clears error; when the reader
\* fires onload or onerror the attempt ends with uploading false and either
\* a navigation to "/" with error null (the parse succeeded) or an error and
\* no navigation by the attempt (the route stays where the user left it);
\* uploading is never true once the reader has completed.
C10_UploadAttempt ==
    /\ [](reader = "none" => ~uploading)
    /\ [][/\ (attempt' # attempt /\ attempt'.outcome = "no file")
               => UNCHANGED <<uploading, upError>>
          /\ (attempt' # attempt /\ attempt'.outcome = "reading")
               => (uploading' /\ upError' = Null)
          /\ ReaderCompletes
               => /\ ~uploading'
                  /\ \/ /\ attempt'.outcome = "navigated"
                        /\ location' = "/"
                        /\ upError' = Null
                        /\ read(attempt.file) # Thrown
                     \/ /\ attempt'.outcome # "navigated"
                        /\ upError' # Null
                        /\ UNCHANGED location]_vars

\* C10 witness: an attempt with a one-row workbook has been read and parsed,
\* and ended with uploading false, no error and the route at "/".
C10_Witness ==
    /\ location = "/"
    /\ ~uploading
    /\ upError = Null
    /\ attempt = [file |-> Workbook(<<<<BaseRow>>>>), outcome |-> "navigated",
                  logged |-> <<BaseRow>>]

=============================================================================
